---- MODULE Spec2Model ----
(***************************************************************************)
(* rasterprynt: the Brother raster encoder of src/rasterprynt.py.          *)
(*                                                                         *)
(* Bytes are the naturals 0..255 and a byte string is a sequence of them.  *)
(* A Python call that can raise returns a record with an err field.        *)
(* render is a generator: one action per resumption, from one yield to the *)
(* next, and out is the sequence of the chunks yielded so far.  A call     *)
(* that ends in an exception leaves pc at the name of the exception.       *)
(***************************************************************************)
EXTENDS Integers, Sequences, FiniteSets, TLC

VARIABLES
    images,         \* the images the for loop of render has taken so far
    ip,             \* render's argument ip (None or an address)
    printer_model,  \* render's argument printer_model, then the resolved one
    top_margin,     \* render's argument top_margin
    bottom_margin,  \* render's argument bottom_margin
    USE_TIFF,       \* the encoding-mode toggle of render
    PRINTER_BY_IP,  \* the module-level detection cache _PRINTER_BY_IP
    pc,             \* where the generator (or the function under test) stands
    out,            \* the chunks render has yielded, in order
    first,          \* render's local first
    stripe_size,    \* render's local stripe_size
    x,              \* render's column loop variable
    row,            \* the payload computed for column x, yielded after its header
    fn_args,        \* arguments of a direct call of _compress_tiff or _raw_row
    fn_ret,         \* what that call returned
    calls,          \* the direct calls of detect_printer_model so far, in order
    sock            \* what print has done with the socket module so far, in order

vars == <<images, ip, printer_model, top_margin, bottom_margin, USE_TIFF,
          PRINTER_BY_IP, pc, out, first, stripe_size, x, row, fn_args, fn_ret,
          calls, sock>>

(***************************************************************************)
(* Bounds of the model.                                                    *)
(***************************************************************************)
MaxImages == 2      \* images in one job
MaxWidth == 2       \* columns of the widest image of a job
MaxMargin == 2      \* the largest top_margin of a job
MaxShortLen == 4    \* _compress_tiff: every row up to this length over Alphabet
MaxLongLen == 136   \* _compress_tiff: the patterned rows up to this length
MaxRawWidth == 2    \* _raw_row: width of the image
MaxRawStripes == 2  \* _raw_row: small stripe counts (51 and 39 are added)
MaxOffset == 2      \* _raw_row: |y_offset|, and columns past the width

None == "None"

(***************************************************************************)
(* struct.pack: the formats the module uses.  A value outside the range of *)
(* its format raises struct.error.                                         *)
(***************************************************************************)
struct_pack_b(n) ==
    [err |-> ~(n \in -128..127), bytes |-> <<IF n < 0 THEN n + 256 ELSE n>>]

struct_pack_B(n) ==
    [err |-> ~(n \in 0..255), bytes |-> <<n>>]

struct_pack_bB(n, m) ==
    [err |-> struct_pack_b(n).err \/ struct_pack_B(m).err,
     bytes |-> struct_pack_b(n).bytes \o struct_pack_B(m).bytes]

struct_pack_H_MutBigEndian(n) ==
    [err |-> ~(n \in 0..65535), bytes |-> <<(n \div 256) % 256, n % 256>>]

struct_pack_H(n) ==
    [err |-> ~(n \in 0..65535), bytes |-> <<n % 256, (n \div 256) % 256>>]

struct_pack_I(n) ==
    [err |-> ~(n >= 0 /\ n \div 65536 <= 65535),   \* 0 <= n < 2^32
     bytes |-> <<n % 256, (n \div 256) % 256, (n \div 65536) % 256,
                 (n \div 16777216) % 256>>]

\* b''.join(chunks)
RECURSIVE join(_)
join(chunks) ==
    IF chunks = <<>> THEN <<>> ELSE Head(chunks) \o join(Tail(chunks))

\* bytes * n (empty for n <= 0)
repeat(bytes, n) ==
    IF n <= 0
    THEN <<>>
    ELSE [i \in 1..(n * Len(bytes)) |-> bytes[((i - 1) % Len(bytes)) + 1]]

(***************************************************************************)
(* _compress_tiff(row): the chunks the generator yields, and whether it    *)
(* raised (struct.error) after yielding them.  pos and uncompressed_start  *)
(* are the 0-based indices of the code.                                    *)
(***************************************************************************)
\* the condition of the inner while loop (line 73) at a given count
repeats(r, pos, count) ==
    pos + count + 1 < Len(r) /\ r[pos + count + 2] = r[pos + count + 1]

\* the inner while loop (lines 72-74): count when the loop ends, which is
\* the first count its condition fails at
run_count_MutPairs(r, pos) == IF repeats(r, pos, 0) THEN 1 ELSE 0

run_count(r, pos) ==
    CHOOSE count \in 0..Len(r) :
        /\ ~repeats(r, pos, count)
        /\ \A c \in 0..(count - 1) : repeats(r, pos, c)

\* struct.pack('!b', pos - uncompressed_start - 1) + row[uncompressed_start:pos]
literal_header_MutOffByOne(uncompressed_start, pos) ==
    struct_pack_b(pos - uncompressed_start)

literal_header(uncompressed_start, pos) ==
    struct_pack_b(pos - uncompressed_start - 1)

literal_chunk(r, uncompressed_start, pos) ==
    [err |-> literal_header(uncompressed_start, pos).err,
     bytes |-> literal_header(uncompressed_start, pos).bytes
               \o SubSeq(r, uncompressed_start + 1, pos)]

\* struct.pack('!bB', -count, row[pos])
run_chunk_MutCountsFirst(r, pos, count) ==
    struct_pack_bB(-(count + 1), r[pos + 1])

run_chunk(r, pos, count) ==
    struct_pack_bB(-count, r[pos + 1])

\* the iterations of the outer loop that find no run (pos += 1, line 87):
\* they end at the first position a run starts at, or at len(row)
skip_literal(r, pos) ==
    CHOOSE p \in pos..Len(r) :
        /\ p = Len(r) \/ run_count(r, p) > 0
        /\ \A q \in pos..(p - 1) : run_count(r, q) = 0

\* the outer loop from position pos on, the pending literal span starting
\* at uncompressed_start: the chunks yielded from here on
RECURSIVE compress_from(_, _, _)
compress_from(r, pos, uncompressed_start) ==
    LET p == skip_literal(r, pos)
        flush == uncompressed_start < p
        lit == literal_chunk(r, uncompressed_start, p)
        flushed == IF flush THEN <<lit.bytes>> ELSE <<>>
    IN  IF flush /\ lit.err
        THEN [err |-> TRUE, chunks |-> <<>>]
        ELSE IF p < Len(r)
             THEN LET count == run_count(r, p)
                      run == run_chunk(r, p, count)
                      rest == compress_from(r, p + count + 1, p + count + 1)
                  IN  IF run.err
                      THEN [err |-> TRUE, chunks |-> flushed]
                      ELSE [err |-> rest.err,
                            chunks |-> flushed \o <<run.bytes>> \o rest.chunks]
             ELSE [err |-> FALSE, chunks |-> flushed]

_compress_tiff(r) == compress_from(r, 0, 0)

(***************************************************************************)
(* Images.  An image is [width, height, pat]: pat names the picture, and   *)
(* a colour is the sequence of its channels: <<l>> for a grayscale int,    *)
(* <<r, g, b>> for an RGB tuple.                                           *)
(***************************************************************************)
Patterns == {"dark", "light", "gray", "rgb"}

pixel(pat, px, py) ==
    CASE pat = "dark" -> <<0>>
      [] pat = "light" -> <<255>>
      [] pat = "gray" -> IF (px + py) % 2 = 0 THEN <<230>> ELSE <<231>>
      [] OTHER -> CASE (px + py) % 4 = 0 -> <<230, 230, 230>>
                    [] (px + py) % 4 = 1 -> <<230, 230, 231>>
                    [] (px + py) % 4 = 2 -> <<0, 255, 255>>
                    [] OTHER -> <<255, 255, 255>>

\* img_bytes[(x, y)] of the pixel access object img.load() returns: a
\* negative index counts from the far edge, an index outside the image
\* raises IndexError.
getitem(img, px, py) ==
    LET wx == IF px < 0 THEN img.width + px ELSE px
        wy == IF py < 0 THEN img.height + py ELSE py
    IN  [err |-> ~(wx \in 0..(img.width - 1) /\ wy \in 0..(img.height - 1)),
         color |-> pixel(img.pat, wx, wy)]

(***************************************************************************)
(* _raw_row(img, img_bytes, stripe_count, x, y_offset); img_bytes is the   *)
(* pixel access of img, so the model passes img alone.                     *)
(***************************************************************************)
THRESHOLD == 230

\* px > 230, with px = color or sum(color) / 3 (true division)
unprinted(color) ==
    IF Len(color) = 1
    THEN color[1] > THRESHOLD
    ELSE color[1] + color[2] + color[3] > 3 * THRESHOLD

\* the condition of line 100, y being stripe_idx * 8 + bit_index - y_offset
sampled(img, col, y) ==
    col < img.width /\ 0 <= y /\ y < img.height

\* what one pass of the inner loop ors into bits
dot(img, col, y_offset, stripe_idx, bit_index) ==
    LET y == stripe_idx * 8 + bit_index - y_offset IN
    IF sampled(img, col, y)
    THEN IF unprinted(getitem(img, col, y).color) THEN 0 ELSE 2 ^ (7 - bit_index)
    ELSE 0

RECURSIVE bits_from(_, _, _, _, _)
bits_from(img, col, y_offset, stripe_idx, bit_index) ==
    IF bit_index = 8
    THEN 0
    ELSE dot(img, col, y_offset, stripe_idx, bit_index)
         + bits_from(img, col, y_offset, stripe_idx, bit_index + 1)

_raw_row(img, stripe_count, col, y_offset) ==
    [err |-> \E stripe_idx \in 0..(stripe_count - 1), bit_index \in 0..7 :
                LET y == stripe_idx * 8 + bit_index - y_offset IN
                sampled(img, col, y) /\ getitem(img, col, y).err,
     bytes |-> [i \in 1..stripe_count |->
                   bits_from(img, col, y_offset, i - 1, 0)]]

(***************************************************************************)
(* _empty_row(stripe_count, use_tiff): one blank Row Frame; the assertion  *)
(* of line 113 raises when the compressed blank stripe is not the 2 bytes  *)
(* expected.  exc names the exception of a call that raises.               *)
(***************************************************************************)
G == 71

zeros(n) == [i \in 1..n |-> 0]

_empty_row(stripe_count, use_tiff) ==
    IF use_tiff
    THEN LET c == _compress_tiff(zeros(stripe_count))
             compressed == join(c.chunks)
             expected == struct_pack_bB(1 - stripe_count, 0)
         IN  IF c.err \/ expected.err \/ compressed # expected.bytes
                \/ struct_pack_H(Len(compressed)).err
             THEN [err |-> TRUE,
                   exc |-> IF ~c.err /\ ~expected.err
                              /\ compressed # expected.bytes
                           THEN "AssertionError" ELSE "struct.error",
                   bytes |-> <<>>]
             ELSE [err |-> FALSE, exc |-> None,
                   bytes |-> <<G>> \o struct_pack_H(Len(compressed)).bytes
                             \o compressed]
    ELSE IF struct_pack_H(stripe_count).err
         THEN [err |-> TRUE, exc |-> "struct.error", bytes |-> <<>>]
         ELSE [err |-> FALSE, exc |-> None,
               bytes |-> <<G>> \o struct_pack_H(stripe_count).bytes
                         \o zeros(stripe_count)]

(***************************************************************************)
(* Printer profiles and model detection.                                   *)
(***************************************************************************)
STRIPE_SIZE_MutNotByteAligned == ("P950NW" :> 408) @@ ("9800PCN" :> 316)

STRIPE_SIZE == ("P950NW" :> 408) @@ ("9800PCN" :> 312)

STRIPE_SIZE_DEFAULT == STRIPE_SIZE["P950NW"]

\* STRIPE_SIZE.get(printer_model, STRIPE_SIZE_DEFAULT)
stripe_size_for_MutOldDefault(model) ==
    IF model \in DOMAIN STRIPE_SIZE THEN STRIPE_SIZE[model] ELSE STRIPE_SIZE["9800PCN"]

stripe_size_for(model) ==
    IF model \in DOMAIN STRIPE_SIZE THEN STRIPE_SIZE[model] ELSE STRIPE_SIZE_DEFAULT

\* What the probe of lines 48-55 meets: a 200 or a 401 with a body (html is
\* the set of the two title markers the body contains), an HTTPError of
\* another status, a URLError that is no HTTPError (no connection), or an
\* exception urlopen and read do not wrap in URLError (the connection
\* closed before the response, a body shorter than announced).
T9800 == "<TITLE>Brother PT-9800PCN</TITLE>"
T950 == "<title>Brother PT-P950NW</title>"

HttpAnswers ==
    {[kind |-> k, html |-> h] : k \in {"200", "401"}, h \in {{}, {T9800}, {T950}}}
    \cup {[kind |-> k, html |-> {}] : k \in {"HTTPError", "URLError", "HTTPException"}}

\* exc is the exception the call ends with, None when it returns res
_detect_printer_model_uncached(answer) ==
    IF answer.kind \in {"200", "401"}
    THEN [exc |-> None,
          res |-> IF T9800 \in answer.html THEN "9800PCN"
                  ELSE IF T950 \in answer.html THEN "P950NW"
                  ELSE None]
    ELSE [exc |-> IF answer.kind = "HTTPException" THEN "HTTPException"
                  ELSE "URLError",
          res |-> None]

\* _PRINTER_BY_IP.get(ip) (line 31)
cache_get_MutNeverCached(cache, addr) == None

cache_get(cache, addr) == IF addr \in DOMAIN cache THEN cache[addr] ELSE None

\* if res: _PRINTER_BY_IP[ip] = res (lines 40-41)
cache_put_MutStoresAll(cache, addr, res) ==
    [a \in DOMAIN cache \cup {addr} |-> IF a = addr THEN res ELSE cache[a]]

cache_put(cache, addr, res) ==
    IF res # None
    THEN [a \in DOMAIN cache \cup {addr} |-> IF a = addr THEN res ELSE cache[a]]
    ELSE cache

\* detect_printer_model(ip) on the cache `cache`, the probe (when one is
\* made) being answered by `answer`: the result, or the exception the call
\* ends with, and the cache afterwards.  Only URLError is caught (line 36).
detect_printer_model(cache, addr, answer) ==
    LET cached == cache_get(cache, addr)
        probe == _detect_printer_model_uncached(answer)
    IN  IF cached # None
        THEN [exc |-> None, res |-> cached, cache |-> cache, probed |-> FALSE]
        ELSE IF probe.exc = "URLError"
             THEN [exc |-> None, res |-> "error", cache |-> cache,
                   probed |-> TRUE]
             ELSE IF probe.exc # None
                  THEN [exc |-> probe.exc, res |-> None, cache |-> cache,
                        probed |-> TRUE]
                  ELSE [exc |-> None, res |-> probe.res,
                        cache |-> cache_put(cache, addr, probe.res),
                        probed |-> TRUE]

(***************************************************************************)
(* render(images, ip, printer_model, top_margin, bottom_margin).           *)
(* pc names the line of the yield the generator is suspended at.           *)
(***************************************************************************)
ESC == 27

INIT_CMD == <<ESC, 64>>                  \* b'\x1b@'
RASTER_MODE_CMD == <<ESC, 105, 97, 1>>   \* b'\x1bia\x01'
NO_AUTO_CUT_CMD == <<ESC, 105, 77, 0>>   \* b'\x1biM\x00'
ZERO_MARGIN_CMD == <<ESC, 105, 100, 0, 0>> \* b'\x1bid\x00\x00'
PAGE_FEED == <<12>>                      \* b'\x0c'
PRINT_CMD == <<26>>                      \* b'\x1a'

\* Select compression mode: TIFF (b'\x4d\x02') or Simple (b'\x4d\x00')
compression_mode(use_tiff) == IF use_tiff THEN <<77, 2>> ELSE <<77, 0>>

raster_number_MutNoMargins(img, top, bottom) == img.width

raster_number(img, top, bottom) == img.width + top + bottom

\* (b'\x00' if first else b'\x01')
starting_page(is_first) == IF is_first THEN <<0>> ELSE <<1>>

\* the print information command of lines 157-165
print_information(number, is_first) ==
    [err |-> struct_pack_I(number).err,
     bytes |-> <<ESC, 105, 122, 192, 0, 0, 0>> \o struct_pack_I(number).bytes
               \o starting_page(is_first) \o <<0>>]

\* offset = stripe_size - img.height (line 177)
offset_MutTopAligned(size, img) == 0

offset(size, img) == size - img.height

\* the Row Frame header and payload of column col (lines 177-187)
row_frame(img, size, col, use_tiff) ==
    LET raw == _raw_row(img, size \div 8, col, offset(size, img))
        c == _compress_tiff(raw.bytes)
        payload == IF use_tiff THEN join(c.chunks) ELSE raw.bytes
    IN  [err |-> raw.err \/ Len(raw.bytes) # size \div 8 \/ (use_tiff /\ c.err)
                 \/ struct_pack_H(Len(payload)).err,
         exc |-> IF raw.err THEN "IndexError"
                 ELSE IF Len(raw.bytes) # size \div 8 THEN "AssertionError"
                 ELSE IF (use_tiff /\ c.err) \/ struct_pack_H(Len(payload)).err
                 THEN "struct.error"
                 ELSE None,
         header |-> <<G>> \o struct_pack_H(Len(payload)).bytes,
         payload |-> payload]

Addr == "192.0.2.7"

Models == {"P950NW", "9800PCN", "QL-570"}

\* the images a job is made of: no column, one column and MaxWidth columns,
\* pictures and heights varying with the width; ShortHeight lies between
\* the two stripe sizes, TallHeight above both.  fault tells what access to
\* the image has failed: none, the load of line 152 or a pixel read.
ShortHeight == 317

TallHeight == 411

JobImage(w) ==
    [width |-> w,
     height |-> IF w = 0 THEN 10 ELSE IF w % 2 = 1 THEN ShortHeight ELSE TallHeight,
     pat |-> IF w % 2 = 0 THEN "rgb" ELSE "gray",
     fault |-> "none"]

JobImages == {JobImage(w) : w \in {0, 1, MaxWidth}}

BigMargin == 300

\* the pairs (top_margin, bottom_margin) of a job: no top margin, equal
\* margins, and a bottom margin that takes two bytes in the raster number
Margins == {<<0, MaxMargin>>, <<1, 1>>, <<MaxMargin, BigMargin>>}

NoCall == [fn |-> "none"]

Init ==
    /\ images = <<>>
    /\ \/ ip = None /\ printer_model \in Models \cup {None}
       \/ ip = Addr /\ printer_model = None
    /\ \E m \in Margins : top_margin = m[1] /\ bottom_margin = m[2]
    /\ USE_TIFF \in BOOLEAN
    /\ PRINTER_BY_IP = [a \in {} |-> None]
    /\ pc = "call"
    /\ out = <<>>
    /\ first = FALSE
    /\ stripe_size = 0
    /\ x = 0
    /\ row = <<>>
    /\ fn_args = NoCall
    /\ fn_ret = NoCall
    /\ calls = <<>>
    /\ sock = <<>>

\* lines 131-139: resolve the model and the stripe size, yield Init
render_start ==
    /\ pc = "call"
    /\ \E answer \in HttpAnswers :
          LET d == detect_printer_model(PRINTER_BY_IP, ip, answer)
              detect == printer_model = None /\ ip # None
              model == IF printer_model = None
                       THEN (IF ip # None THEN d.res ELSE None)
                       ELSE printer_model
          IN  IF detect /\ d.exc # None
              THEN /\ pc' = d.exc
                   /\ PRINTER_BY_IP' = d.cache
                   /\ UNCHANGED <<printer_model, stripe_size, out>>
              ELSE /\ printer_model' = model
                   /\ PRINTER_BY_IP' = IF detect THEN d.cache ELSE PRINTER_BY_IP
                   /\ stripe_size' = stripe_size_for(model)
                   /\ IF stripe_size_for(model) % 8 = 0
                      THEN pc' = "L139" /\ out' = Append(out, INIT_CMD)
                      ELSE pc' = "AssertionError" /\ out' = out
    /\ UNCHANGED <<calls, sock>>
    /\ UNCHANGED <<images, ip, top_margin, bottom_margin, USE_TIFF, first, x,
                   row, fn_args, fn_ret>>

yield_raster_mode ==
    /\ pc = "L139"
    /\ pc' = "L140"
    /\ out' = Append(out, RASTER_MODE_CMD)
    /\ UNCHANGED <<calls, sock>>
    /\ UNCHANGED <<images, ip, printer_model, top_margin, bottom_margin,
                   USE_TIFF, PRINTER_BY_IP, first, stripe_size, x, row,
                   fn_args, fn_ret>>

yield_no_auto_cut ==
    /\ pc = "L140"
    /\ pc' = "L142"
    /\ out' = Append(out, NO_AUTO_CUT_CMD)
    /\ UNCHANGED <<calls, sock>>
    /\ UNCHANGED <<images, ip, printer_model, top_margin, bottom_margin,
                   USE_TIFF, PRINTER_BY_IP, first, stripe_size, x, row,
                   fn_args, fn_ret>>

yield_zero_margin ==
    /\ pc = "L142"
    /\ pc' = "L143"
    /\ out' = Append(out, ZERO_MARGIN_CMD)
    /\ UNCHANGED <<calls, sock>>
    /\ UNCHANGED <<images, ip, printer_model, top_margin, bottom_margin,
                   USE_TIFF, PRINTER_BY_IP, first, stripe_size, x, row,
                   fn_args, fn_ret>>

\* the for loop is entered after line 143 (first = True, line 145) and
\* re-entered after the bottom margin of line 191
at_for == pc \in {"L143", "L191"}

first_at_for_MutNeverCleared == TRUE

first_at_for == IF pc = "L143" THEN TRUE ELSE first

\* lines 152-165: load the image, yield its print information command
emit_print_information(img, is_first) ==
    LET info == print_information(
                    raster_number(img, top_margin, bottom_margin), is_first)
    IN  IF info.err
        THEN pc' = "struct.error" /\ out' = out
        ELSE pc' = "L157" /\ out' = Append(out, info.bytes)

\* An exception of img.load() (line 152) or of a pixel read (line 101) is
\* caught nowhere in render: the generator ends with it.
image_error_pc_MutSkipsImage == "L191"

image_error_pc == "ImageError"

faulty(img, access) == [img EXCEPT !.fault = access]

\* column col of img has a pixel the rasterizer reads
reads_pixels(img, size, col) ==
    \E stripe_idx \in 0..(size \div 8 - 1), bit_index \in 0..7 :
       sampled(img, col, stripe_idx * 8 + bit_index - offset(size, img))

\* the first image: first = False (line 148), then lines 152-165
for_first_image ==
    /\ at_for
    /\ first_at_for
    /\ Len(images) < MaxImages
    /\ \E img \in JobImages, loads \in BOOLEAN :
          /\ first' = FALSE
          /\ IF loads
             THEN /\ images' = Append(images, img)
                  /\ emit_print_information(img, first')
             ELSE /\ images' = Append(images, faulty(img, "load"))
                  /\ pc' = image_error_pc
                  /\ out' = out
    /\ UNCHANGED <<calls, sock>>
    /\ UNCHANGED <<ip, printer_model, top_margin, bottom_margin, USE_TIFF,
                   PRINTER_BY_IP, stripe_size, x, row, fn_args, fn_ret>>

\* a later image: yield the page feed (line 150)
for_next_image ==
    /\ at_for
    /\ ~first_at_for
    /\ Len(images) < MaxImages
    /\ \E img \in JobImages : images' = Append(images, img)
    /\ pc' = "L150"
    /\ out' = Append(out, PAGE_FEED)
    /\ UNCHANGED <<calls, sock>>
    /\ UNCHANGED <<ip, printer_model, top_margin, bottom_margin, USE_TIFF,
                   PRINTER_BY_IP, first, stripe_size, x, row, fn_args, fn_ret>>

\* lines 152-165 for a later image
yield_print_information ==
    /\ pc = "L150"
    /\ \E loads \in BOOLEAN :
          IF loads
          THEN /\ images' = images
               /\ emit_print_information(images[Len(images)], first)
          ELSE /\ images' = [images EXCEPT
                                ![Len(images)] = faulty(@, "load")]
               /\ pc' = image_error_pc
               /\ out' = out
    /\ UNCHANGED <<calls, sock>>
    /\ UNCHANGED <<ip, printer_model, top_margin, bottom_margin,
                   USE_TIFF, PRINTER_BY_IP, first, stripe_size, x, row,
                   fn_args, fn_ret>>

yield_compression_mode ==
    /\ pc = "L157"
    /\ pc' = "L168"
    /\ out' = Append(out, compression_mode(USE_TIFF))
    /\ UNCHANGED <<calls, sock>>
    /\ UNCHANGED <<images, ip, printer_model, top_margin, bottom_margin,
                   USE_TIFF, PRINTER_BY_IP, first, stripe_size, x, row,
                   fn_args, fn_ret>>

\* _empty_row(stripe_count, USE_TIFF) * top_margin (line 174)
top_margin_rows(top, bottom) ==
    repeat(_empty_row(stripe_size \div 8, USE_TIFF).bytes, top)

\* _empty_row(stripe_count, USE_TIFF) * top_margin (line 191)
bottom_margin_rows_MutBottomMargin(top, bottom) ==
    repeat(_empty_row(stripe_size \div 8, USE_TIFF).bytes, bottom)

bottom_margin_rows(top, bottom) ==
    repeat(_empty_row(stripe_size \div 8, USE_TIFF).bytes, top)

yield_top_margin ==
    /\ pc = "L168"
    /\ IF _empty_row(stripe_size \div 8, USE_TIFF).err
       THEN pc' = _empty_row(stripe_size \div 8, USE_TIFF).exc /\ out' = out
       ELSE pc' = "L174" /\ out' = Append(out, top_margin_rows(top_margin, bottom_margin))
    /\ x' = 0
    /\ UNCHANGED <<calls, sock>>
    /\ UNCHANGED <<images, ip, printer_model, top_margin, bottom_margin,
                   USE_TIFF, PRINTER_BY_IP, first, stripe_size, row, fn_args,
                   fn_ret>>

\* the column loop is entered after line 174 and re-entered after the
\* payload of lines 184/187; x is the next column
at_columns == pc \in {"L174", "L184"}

yield_row_header ==
    /\ at_columns
    /\ x < images[Len(images)].width
    /\ \E reads \in {r \in BOOLEAN :
                      r \/ reads_pixels(images[Len(images)], stripe_size, x)} :
          LET f == row_frame(images[Len(images)], stripe_size, x, USE_TIFF) IN
          IF ~reads
          THEN /\ images' = [images EXCEPT
                                ![Len(images)] = faulty(@, "pixel")]
               /\ pc' = image_error_pc
               /\ out' = out
               /\ row' = row
          ELSE /\ images' = images
               /\ IF f.err
                  THEN pc' = f.exc /\ out' = out /\ row' = row
                  ELSE /\ pc' = "L183"
                       /\ out' = Append(out, f.header)
                       /\ row' = f.payload
    /\ UNCHANGED <<calls, sock>>
    /\ UNCHANGED <<ip, printer_model, top_margin, bottom_margin,
                   USE_TIFF, PRINTER_BY_IP, first, stripe_size, x, fn_args,
                   fn_ret>>

\* for x in range(img.width): the column after col
next_column_MutSkips(col) == col + 2

next_column(col) == col + 1

yield_row_payload ==
    /\ pc = "L183"
    /\ pc' = "L184"
    /\ out' = Append(out, row)
    /\ x' = next_column(x)
    /\ UNCHANGED <<calls, sock>>
    /\ UNCHANGED <<images, ip, printer_model, top_margin, bottom_margin,
                   USE_TIFF, PRINTER_BY_IP, first, stripe_size, row, fn_args,
                   fn_ret>>

yield_bottom_margin ==
    /\ at_columns
    /\ x >= images[Len(images)].width
    /\ IF _empty_row(stripe_size \div 8, USE_TIFF).err
       THEN pc' = _empty_row(stripe_size \div 8, USE_TIFF).exc /\ out' = out
       ELSE pc' = "L191" /\ out' = Append(out, bottom_margin_rows(top_margin, bottom_margin))
    /\ UNCHANGED <<calls, sock>>
    /\ UNCHANGED <<images, ip, printer_model, top_margin, bottom_margin,
                   USE_TIFF, PRINTER_BY_IP, first, stripe_size, x, row,
                   fn_args, fn_ret>>

\* the images are exhausted: yield Print (line 193), the generator ends;
\* coming from line 143 the resumption has run first = True (line 145)
yield_print ==
    /\ at_for
    /\ pc' = "done"
    /\ out' = Append(out, PRINT_CMD)
    /\ first' = first_at_for
    /\ UNCHANGED <<calls, sock>>
    /\ UNCHANGED <<images, ip, printer_model, top_margin, bottom_margin,
                   USE_TIFF, PRINTER_BY_IP, stripe_size, x, row, fn_args,
                   fn_ret>>

Next ==
    \/ render_start
    \/ yield_raster_mode
    \/ yield_no_auto_cut
    \/ yield_zero_margin
    \/ for_first_image
    \/ for_next_image
    \/ yield_print_information
    \/ yield_compression_mode
    \/ yield_top_margin
    \/ yield_row_header
    \/ yield_row_payload
    \/ yield_bottom_margin
    \/ yield_print

Spec == Init /\ [][Next]_vars

(***************************************************************************)
(* Direct calls of the two pure functions, on inputs from bounded sets.    *)
(***************************************************************************)
Idle ==
    /\ images = <<>>
    /\ ip = None
    /\ printer_model = None
    /\ top_margin = 0
    /\ bottom_margin = 0
    /\ USE_TIFF = FALSE
    /\ PRINTER_BY_IP = [a \in {} |-> None]
    /\ out = <<>>
    /\ first = FALSE
    /\ stripe_size = 0
    /\ x = 0
    /\ row = <<>>
    /\ fn_ret = NoCall
    /\ calls = <<>>
    /\ sock = <<>>

Alphabet == {0, 7, 255}

ShortRows == UNION {[1..n -> Alphabet] : n \in 0..MaxShortLen}

LongKinds == {"zeros", "literal", "blocks", "literal_run", "run_literal"}

LongRow(kind, n) ==
    [i \in 1..n |->
        CASE kind = "zeros" -> 0
          [] kind = "literal" -> 65 + (i % 2)
          [] kind = "blocks" -> 200 + (((i - 1) \div (1 + n \div 8)) % 2)
          [] kind = "literal_run" -> IF 2 * i <= n THEN 10 + (i % 2) ELSE 255
          [] OTHER -> IF 2 * i <= n THEN 0 ELSE 1 + (i % 2)]

CompressRows == ShortRows \cup {LongRow(k, n) : k \in LongKinds, n \in 0..MaxLongLen}

InitCompress ==
    /\ Idle
    /\ pc = "compress_tiff"
    /\ fn_args \in {[fn |-> "_compress_tiff", row |-> r] : r \in CompressRows}

call_compress_tiff ==
    /\ pc = "compress_tiff"
    /\ pc' = "returned"
    /\ fn_ret' = _compress_tiff(fn_args.row)
    /\ UNCHANGED <<calls, sock>>
    /\ UNCHANGED <<images, ip, printer_model, top_margin, bottom_margin,
                   USE_TIFF, PRINTER_BY_IP, out, first, stripe_size, x, row,
                   fn_args>>

NextCompress == call_compress_tiff

SpecCompress == InitCompress /\ [][NextCompress]_vars

RawImages ==
    {[width |-> w, height |-> h, pat |-> p] :
        w \in 1..MaxRawWidth, h \in {1, 10}, p \in Patterns}

RawStripeCounts == (0..MaxRawStripes) \cup {39, 51}

InitRaw ==
    /\ Idle
    /\ pc = "raw_row"
    /\ fn_args \in {[fn |-> "_raw_row", img |-> i, stripe_count |-> n,
                     x |-> c, y_offset |-> o] :
                       i \in RawImages, n \in RawStripeCounts,
                       c \in (-1)..(MaxRawWidth + MaxOffset),
                       o \in ((-MaxOffset)..MaxOffset) \cup {302, 398}}

call_raw_row ==
    /\ pc = "raw_row"
    /\ pc' = "returned"
    /\ fn_ret' = _raw_row(fn_args.img, fn_args.stripe_count, fn_args.x,
                          fn_args.y_offset)
    /\ UNCHANGED <<calls, sock>>
    /\ UNCHANGED <<images, ip, printer_model, top_margin, bottom_margin,
                   USE_TIFF, PRINTER_BY_IP, out, first, stripe_size, x, row,
                   fn_args>>

NextRaw == call_raw_row

SpecRaw == InitRaw /\ [][NextRaw]_vars

(***************************************************************************)
(* Direct calls of detect_printer_model, one after the other in one        *)
(* process, on the one cache _PRINTER_BY_IP.  calls keeps, for every call, *)
(* its address, whether it probed and what the probe met, the exception or *)
(* the result it ended with, and the cache it left.                        *)
(***************************************************************************)
MaxCalls == 3

Addr2 == "192.0.2.8"

Addrs == {Addr, Addr2}

NoAnswer == [kind |-> "none", html |-> {}]

InitDetect ==
    /\ Idle
    /\ pc = "detect"
    /\ fn_args = NoCall

call_detect_printer_model ==
    /\ pc = "detect"
    /\ Len(calls) < MaxCalls
    /\ \E addr \in Addrs, answer \in HttpAnswers :
          LET d == detect_printer_model(PRINTER_BY_IP, addr, answer) IN
          /\ PRINTER_BY_IP' = d.cache
          /\ calls' = Append(calls,
                             [ip |-> addr,
                              probed |-> d.probed,
                              answer |-> IF d.probed THEN answer ELSE NoAnswer,
                              exc |-> d.exc,
                              res |-> d.res,
                              cache |-> d.cache])
    /\ UNCHANGED <<images, ip, printer_model, top_margin, bottom_margin,
                   USE_TIFF, pc, out, first, stripe_size, x, row, fn_args,
                   fn_ret, sock>>

NextDetect == call_detect_printer_model

SpecDetect == InitDetect /\ [][NextDetect]_vars

(***************************************************************************)
(* print(images, ip, top_margin, bottom_margin): cat drains render (the    *)
(* actions of Next, with the ip and no printer_model), then the socket is  *)
(* opened, written and closed.  sock keeps every call print makes on the   *)
(* socket module and on the socket, with its argument and whether it       *)
(* succeeded; a call that fails raises OSError.                            *)
(***************************************************************************)
PORT == 9100

\* b''.join(render(...)) (line 197)
cat_MutLastChunk(chunks) == chunks[Len(chunks)]

cat(chunks) == join(chunks)

\* line 202 has returned: render is exhausted
encoded_MutStreaming == pc \in {"done", "L191"}

encoded == pc = "done"

InitPrint ==
    /\ images = <<>>
    /\ ip = Addr
    /\ printer_model = None
    /\ top_margin \in {0, MaxMargin}
    /\ bottom_margin = MaxMargin
    /\ USE_TIFF = FALSE
    /\ PRINTER_BY_IP = [a \in {} |-> None]
    /\ pc = "call"
    /\ out = <<>>
    /\ first = FALSE
    /\ stripe_size = 0
    /\ x = 0
    /\ row = <<>>
    /\ fn_args = NoCall
    /\ fn_ret = NoCall
    /\ calls = <<>>
    /\ sock = <<>>

\* sock = socket.create_connection((ip, 9100)) (line 203)
print_create_connection ==
    /\ encoded
    /\ \E ok \in BOOLEAN :
          /\ sock' = Append(sock, [op |-> "create_connection",
                                   arg |-> <<ip, PORT>>, ok |-> ok])
          /\ pc' = IF ok THEN "L203" ELSE "OSError"
    /\ UNCHANGED <<images, ip, printer_model, top_margin, bottom_margin,
                   USE_TIFF, PRINTER_BY_IP, out, first, stripe_size, x, row,
                   fn_args, fn_ret, calls>>

\* sock.sendall(data) (line 204)
print_sendall ==
    /\ pc = "L203"
    /\ \E ok \in BOOLEAN :
          /\ sock' = Append(sock, [op |-> "sendall", arg |-> cat(out),
                                   ok |-> ok])
          /\ pc' = IF ok THEN "L204" ELSE "OSError"
    /\ UNCHANGED <<images, ip, printer_model, top_margin, bottom_margin,
                   USE_TIFF, PRINTER_BY_IP, out, first, stripe_size, x, row,
                   fn_args, fn_ret, calls>>

\* sock.close() (line 205), print returns
print_close ==
    /\ pc = "L204"
    /\ sock' = Append(sock, [op |-> "close", arg |-> <<>>, ok |-> TRUE])
    /\ pc' = "L205"
    /\ UNCHANGED <<images, ip, printer_model, top_margin, bottom_margin,
                   USE_TIFF, PRINTER_BY_IP, out, first, stripe_size, x, row,
                   fn_args, fn_ret, calls>>

NextPrint ==
    \/ Next
    \/ print_create_connection
    \/ print_sendall
    \/ print_close

SpecPrint == InitPrint /\ [][NextPrint]_vars

(***************************************************************************)
(* Reading a finished job stream.  Block k is what render yields for       *)
(* images[k]: the print information command, the compression mode, the top *)
(* margin rows, a header and a payload per column, the bottom margin rows. *)
(***************************************************************************)
Done == pc = "done"

RECURSIVE ChunksOfBlocks(_)
ChunksOfBlocks(k) ==
    IF k = 0 THEN 0 ELSE ChunksOfBlocks(k - 1) + 4 + 2 * images[k].width

\* the place in out of the print information command of images[k]: after
\* the four leading commands, the earlier blocks and one page feed before
\* every block but the first
InfoIndex(k) == 4 + ChunksOfBlocks(k - 1) + (k - 1) + 1

TopMarginIndex(k) == InfoIndex(k) + 2

HeaderIndex(k, col) == InfoIndex(k) + 3 + 2 * col

PayloadIndex(k, col) == InfoIndex(k) + 4 + 2 * col

BottomMarginIndex(k) == InfoIndex(k) + 3 + 2 * images[k].width

IsPrintInformation(c) == Len(c) = 13 /\ SubSeq(c, 1, 3) = <<27, 105, 122>>

\* the declared lengths of the Row Frames a byte string is made of, a frame
\* being 'G', a 16-bit little-endian length and that many bytes; -1 stands
\* for bytes that are no such frame
RECURSIVE FrameLengths(_)
FrameLengths(b) ==
    IF b = <<>>
    THEN <<>>
    ELSE IF Len(b) >= 3 /\ b[1] = 71 /\ Len(b) >= 3 + b[2] + 256 * b[3]
         THEN <<b[2] + 256 * b[3]>>
              \o FrameLengths(SubSeq(b, 4 + b[2] + 256 * b[3], Len(b)))
         ELSE <<-1>>

WellFramed(b) == \A i \in 1..Len(FrameLengths(b)) : FrameLengths(b)[i] >= 0

\* the PackBits rule: header n in 0..127 copies the next n + 1 bytes,
\* header n in -127..-1 repeats the next byte 1 - n times
RECURSIVE PackBitsDecode(_)
PackBitsDecode(b) ==
    IF b = <<>>
    THEN [ok |-> TRUE, bytes |-> <<>>]
    ELSE IF b[1] <= 127
         THEN IF Len(b) >= b[1] + 2
              THEN LET rest == PackBitsDecode(SubSeq(b, b[1] + 3, Len(b))) IN
                   [ok |-> rest.ok,
                    bytes |-> SubSeq(b, 2, b[1] + 2) \o rest.bytes]
              ELSE [ok |-> FALSE, bytes |-> <<>>]
         ELSE IF b[1] >= 129 /\ Len(b) >= 2
              THEN LET rest == PackBitsDecode(SubSeq(b, 3, Len(b))) IN
                   [ok |-> rest.ok,
                    bytes |-> [i \in 1..(257 - b[1]) |-> b[2]] \o rest.bytes]
              ELSE [ok |-> FALSE, bytes |-> <<>>]

Returned == pc = "returned"

IsZeroRow(r) == Len(r) > 0 /\ \A i \in 1..Len(r) : r[i] = 0

(***************************************************************************)
(* C1 (SpecCompress).  For every row of at most 128 bytes _compress_tiff   *)
(* ends without an error and decoding the concatenation of its chunks by   *)
(* the PackBits rule gives the row back.                                   *)
(***************************************************************************)
C1_RoundTrip ==
    (Returned /\ Len(fn_args.row) <= 128)
        => /\ ~fn_ret.err
           /\ \A i \in 1..Len(fn_ret.chunks) :
                 \A j \in 1..Len(fn_ret.chunks[i]) :
                    fn_ret.chunks[i][j] \in 0..255
           /\ PackBitsDecode(join(fn_ret.chunks))
                 = [ok |-> TRUE, bytes |-> fn_args.row]

\* a row of 128 bytes with a literal span and a run has been compressed
C1_Witness ==
    /\ Returned
    /\ Len(fn_args.row) = 128
    /\ Len(fn_ret.chunks) = 2
    /\ fn_ret.chunks[1][1] <= 127
    /\ fn_ret.chunks[2][1] >= 129

(***************************************************************************)
(* C2 (Spec).  In a job of two or more images the starting-page byte of    *)
(* the first image's print information command differs from that of the    *)
(* second image's, and the later images all carry the same byte.           *)
(***************************************************************************)
C2_StartingPageOnlyFirst ==
    (Done /\ Len(images) >= 2)
        => /\ out[InfoIndex(1)][12] # out[InfoIndex(2)][12]
           /\ \A k \in 2..Len(images) :
                 out[InfoIndex(k)][12] = out[InfoIndex(2)][12]

(***************************************************************************)
(* C3 (Spec).  A job of n >= 1 images holds exactly n - 1 page feed        *)
(* chunks: none before the first block, and before every later block one,  *)
(* right after the bottom margin rows of the block before it and right     *)
(* before the block's print information command.                           *)
(***************************************************************************)
C3_PageFeedBetweenBlocks ==
    (Done /\ Len(images) >= 1)
        => /\ Cardinality({i \in 1..Len(out) : out[i] = <<12>>})
                 = Len(images) - 1
           /\ IsPrintInformation(out[InfoIndex(1)])
           /\ \A i \in 1..InfoIndex(1) : out[i] # <<12>>
           /\ \A k \in 2..Len(images) :
                 /\ out[InfoIndex(k) - 1] = <<12>>
                 /\ InfoIndex(k) - 2 = BottomMarginIndex(k - 1)
                 /\ WellFramed(out[InfoIndex(k) - 2])
                 /\ Len(FrameLengths(out[InfoIndex(k) - 2])) = top_margin
                 /\ IsPrintInformation(out[InfoIndex(k)])

\* a job of two images is finished
C3_Witness ==
    Done /\ Len(images) = 2 /\ out[InfoIndex(2) - 1] = <<12>>

(***************************************************************************)
(* C4 (Spec).  The chunks of a finished job, the page feeds of C3 left     *)
(* out, are in this order: the four leading commands, the same for every   *)
(* input; for each image in input order its print information command,     *)
(* the compression mode, the top margin rows, the Row Frame of every       *)
(* column from 0 to width - 1 in increasing order, the bottom margin rows; *)
(* and last the print command, which occurs once.                          *)
(***************************************************************************)
C4_FixedOrder ==
    Done
        => /\ Len(out) = InfoIndex(Len(images) + 1)
                          - (IF Len(images) = 0 THEN 0 ELSE 1)
           /\ SubSeq(out, 1, 4) = << <<27, 64>>, <<27, 105, 97, 1>>,
                                     <<27, 105, 77, 0>>, <<27, 105, 100, 0, 0>> >>
           /\ out[Len(out)] = <<26>>
           /\ Cardinality({i \in 1..Len(out) : out[i] = <<26>>}) = 1
           /\ \A k \in 1..Len(images) :
                 /\ IsPrintInformation(out[InfoIndex(k)])
                 /\ out[InfoIndex(k) + 1] \in {<<77, 0>>, <<77, 2>>}
                 /\ WellFramed(out[TopMarginIndex(k)])
                 /\ \A col \in 0..(images[k].width - 1) :
                       /\ Len(out[HeaderIndex(k, col)]) = 3
                       /\ out[HeaderIndex(k, col)][1] = 71
                       /\ out[PayloadIndex(k, col)]
                             = row_frame(images[k], stripe_size, col,
                                         USE_TIFF).payload
                 /\ WellFramed(out[BottomMarginIndex(k)])

\* a job of two images, the second of two different columns, is finished
C4_Witness ==
    /\ Done
    /\ Len(images) = 2
    /\ images[2].width = 2
    /\ out[PayloadIndex(2, 0)] # out[PayloadIndex(2, 1)]

(***************************************************************************)
(* C5 (Spec).  Every Row Frame of a finished job, of a margin or of a      *)
(* column, in simple and in TIFF mode, is 'G', a 16-bit little-endian      *)
(* length and a payload of exactly that many bytes; in simple mode the     *)
(* length is the stripe byte count, stripe size / 8.                       *)
(***************************************************************************)
C5_DeclaredLength ==
    Done
        => \A k \in 1..Len(images) :
              /\ \A m \in {TopMarginIndex(k), BottomMarginIndex(k)} :
                    /\ WellFramed(out[m])
                    /\ ~USE_TIFF =>
                          \A i \in 1..Len(FrameLengths(out[m])) :
                             FrameLengths(out[m])[i] = stripe_size \div 8
              /\ \A col \in 0..(images[k].width - 1) :
                    LET header == out[HeaderIndex(k, col)]
                        payload == out[PayloadIndex(k, col)]
                    IN  /\ Len(header) = 3
                        /\ header[1] = 71
                        /\ header[2] \in 0..255 /\ header[3] \in 0..255
                        /\ header[2] + 256 * header[3] = Len(payload)
                        /\ ~USE_TIFF => Len(payload) = stripe_size \div 8

\* a TIFF job with margin rows and a compressed column is finished
C5_Witness ==
    /\ Done
    /\ USE_TIFF
    /\ top_margin >= 1
    /\ Len(images) >= 1
    /\ images[1].width >= 1
    /\ Len(out[PayloadIndex(1, 0)]) < stripe_size \div 8

(***************************************************************************)
(* C6 (Spec).  The block of an image of width w holds top_margin empty Row *)
(* Frames, then w column frames, then top_margin empty Row Frames again,   *)
(* whatever bottom_margin is.                                              *)
(***************************************************************************)
C6_MarginRowCounts ==
    Done
        => \A k \in 1..Len(images) :
              LET rows == join(SubSeq(out, TopMarginIndex(k),
                                      BottomMarginIndex(k)))
              IN  /\ IsPrintInformation(out[InfoIndex(k)])
                  /\ out[BottomMarginIndex(k) + 1] \in {<<12>>, <<26>>}
                  /\ WellFramed(out[TopMarginIndex(k)])
                  /\ Len(FrameLengths(out[TopMarginIndex(k)])) = top_margin
                  /\ WellFramed(out[BottomMarginIndex(k)])
                  /\ Len(FrameLengths(out[BottomMarginIndex(k)])) = top_margin
                  /\ WellFramed(rows)
                  /\ Len(FrameLengths(rows))
                        = top_margin + images[k].width + top_margin

\* a 1-column image with top_margin = 2 and another bottom_margin: 5 frames
C6_Witness ==
    /\ Done
    /\ Len(images) = 1
    /\ images[1].width = 1
    /\ top_margin = 2
    /\ bottom_margin # top_margin
    /\ Len(FrameLengths(join(SubSeq(out, TopMarginIndex(1),
                                    BottomMarginIndex(1))))) = 5

(***************************************************************************)
(* C7 (Spec).  The print information command of every image is ESC i z,    *)
(* 0xC0, three zero bytes, the raster number width + top_margin +          *)
(* bottom_margin as a 32-bit little-endian integer, the starting-page byte *)
(* and a zero byte.                                                        *)
(***************************************************************************)
C7_RasterNumber ==
    Done
        => \A k \in 1..Len(images) :
              LET c == out[InfoIndex(k)] IN
              /\ Len(c) = 13
              /\ SubSeq(c, 1, 7) = <<27, 105, 122, 192, 0, 0, 0>>
              /\ \A i \in 8..11 : c[i] \in 0..255
              /\ c[8] + 256 * c[9] + 65536 * c[10] + 16777216 * c[11]
                    = images[k].width + top_margin + bottom_margin
              /\ c[12] \in {0, 1}
              /\ c[13] = 0

\* a raster number that needs two bytes has been emitted
C7_Witness ==
    /\ Done
    /\ Len(images) >= 1
    /\ images[1].width + top_margin + bottom_margin > 255
    /\ out[InfoIndex(1)][9] > 0

(***************************************************************************)
(* C8 (SpecCompress).  As claimed: for every positive multiple N of 8,     *)
(* _compress_tiff of N zero bytes yields the 2 bytes (1 - N as a signed    *)
(* byte, 0x00).                                                            *)
(***************************************************************************)
C8_ZeroRowAnyLength ==
    (Returned /\ IsZeroRow(fn_args.row) /\ Len(fn_args.row) % 8 = 0)
        => /\ ~fn_ret.err
           /\ join(fn_ret.chunks) = <<257 - Len(fn_args.row), 0>>

(***************************************************************************)
(* C8 (SpecCompress), amended.  For every positive multiple N of 8 that is *)
(* at most 128, _compress_tiff of N zero bytes yields the 2 bytes (1 - N   *)
(* as a signed byte, which is the byte 257 - N, then 0x00).                *)
(***************************************************************************)
C8_ZeroRowUpTo128 ==
    (Returned /\ IsZeroRow(fn_args.row) /\ Len(fn_args.row) % 8 = 0
        /\ Len(fn_args.row) <= 128)
        => /\ ~fn_ret.err
           /\ join(fn_ret.chunks) = <<257 - Len(fn_args.row), 0>>

\* 128 zero bytes have been compressed
C8_Witness ==
    /\ Returned
    /\ IsZeroRow(fn_args.row)
    /\ Len(fn_args.row) = 128
    /\ fn_ret.chunks = << <<129, 0>> >>

(***************************************************************************)
(* C9 (SpecRaw).  _raw_row returns stripe_count bytes, and bit 7 - b of    *)
(* byte i is 1 exactly when the column x is in [0, width), the row         *)
(* y = 8 * i + b - y_offset is in [0, height) and the luminance of the     *)
(* pixel (x, y) is at most 230; outside these ranges, a negative column    *)
(* included, the dot is 0 and no pixel is read.                            *)
(***************************************************************************)
Luminance3(color) ==
    IF Len(color) = 1 THEN 3 * color[1] ELSE color[1] + color[2] + color[3]

BitOf(byte, b) == (byte \div (2 ^ (7 - b))) % 2

C9_DotIffInsideAndDark ==
    Returned
        => /\ ~fn_ret.err
           /\ Len(fn_ret.bytes) = fn_args.stripe_count
           /\ \A i \in 0..(fn_args.stripe_count - 1), b \in 0..7 :
                 LET y == 8 * i + b - fn_args.y_offset IN
                 BitOf(fn_ret.bytes[i + 1], b) = 1
                    <=> /\ fn_args.x \in 0..(fn_args.img.width - 1)
                        /\ y \in 0..(fn_args.img.height - 1)
                        /\ Luminance3(pixel(fn_args.img.pat, fn_args.x, y))
                              <= 3 * 230

(***************************************************************************)
(* C10 (Spec).  Once render has resolved it, the stripe size is 408 for    *)
(* the model 'P950NW', 312 for '9800PCN' and 408 for every other model:    *)
(* none given, an unknown one, the 'error' sentinel and the None of an     *)
(* unrecognised printer; it is a multiple of 8.                            *)
(***************************************************************************)
C10_StripeSize ==
    Len(out) >= 1
        => /\ printer_model = "P950NW" => stripe_size = 408
           /\ printer_model = "9800PCN" => stripe_size = 312
           /\ printer_model \notin {"P950NW", "9800PCN"} => stripe_size = 408
           /\ stripe_size % 8 = 0

\* render runs with the 'error' sentinel of a failed detection
C10_Witness ==
    /\ pc = "L139"
    /\ ip = Addr
    /\ printer_model = "error"
    /\ stripe_size = 408

(***************************************************************************)
(* C11 (SpecDetect).  As claimed: after a call detect_printer_model(A) has *)
(* returned a result R, whatever R is, every later call for A returns R    *)
(* without another HTTP probe, whatever calls for other addresses happen   *)
(* in between.                                                             *)
(***************************************************************************)
C11_EveryResultCached ==
    \A i \in 1..Len(calls), j \in 1..Len(calls) :
       (i < j /\ calls[i].ip = calls[j].ip /\ calls[i].exc = None)
          => /\ calls[j].exc = None
             /\ calls[j].res = calls[i].res
             /\ ~calls[j].probed

(***************************************************************************)
(* C11 (SpecDetect), amended.  After a call detect_printer_model(A) has    *)
(* returned a recognised model R ('9800PCN' or 'P950NW'), every later call *)
(* for A returns R without another HTTP probe, whatever calls for other    *)
(* addresses happen in between.                                            *)
(***************************************************************************)
C11_RecognisedResultCached ==
    \A i \in 1..Len(calls), j \in 1..Len(calls) :
       (i < j /\ calls[i].ip = calls[j].ip /\ calls[i].exc = None
          /\ calls[i].res \in {"9800PCN", "P950NW"})
          => /\ calls[j].exc = None
             /\ calls[j].res = calls[i].res
             /\ ~calls[j].probed

\* a model detected for one address, a call for another address that
\* detects the other model, and the first address asked again
C11_Witness ==
    /\ Len(calls) = 3
    /\ calls[1].ip = calls[3].ip
    /\ calls[2].ip # calls[1].ip
    /\ calls[1].probed /\ calls[1].res = "P950NW"
    /\ calls[2].probed /\ calls[2].res = "9800PCN"
    /\ ~calls[3].probed /\ calls[3].res = "P950NW"

(***************************************************************************)
(* C12 (SpecDetect).  A call of detect_printer_model that probes ends      *)
(* without an exception; a 401 with a body gives what a 200 with that body *)
(* gives, the model of the title marker in the body or None when the body  *)
(* holds neither; every other network or HTTP error of the probe gives     *)
(* 'error'; and the stripe size resolved from 'error' or None is the       *)
(* default one.                                                            *)
(***************************************************************************)
C12_ProbeErrorsGiveSentinel ==
    \A i \in 1..Len(calls) :
       calls[i].probed
          => /\ calls[i].exc = None
             /\ calls[i].answer.kind \in {"200", "401"}
                   => calls[i].res
                         = (IF T9800 \in calls[i].answer.html THEN "9800PCN"
                            ELSE IF T950 \in calls[i].answer.html THEN "P950NW"
                            ELSE None)
             /\ calls[i].answer.kind \notin {"200", "401"}
                   => calls[i].res = "error"
             /\ calls[i].res \in {"error", None}
                   => stripe_size_for(calls[i].res) = 408

(***************************************************************************)
(* C13 (Spec).  When img.load() or a pixel read fails while render encodes *)
(* image k at column x, render ends with that exception and the chunks it  *)
(* has yielded are the job stream up to, and without, the Row Frame of     *)
(* column x (up to the block of image k, its page feed included, when the  *)
(* load fails): the four leading commands, the complete blocks of the      *)
(* images before k, and of block k what comes before column x.  Nothing is *)
(* yielded afterwards, and the print command 0x1A is never yielded.        *)
(***************************************************************************)
C13_ImageErrorStopsEncode ==
    \A k \in 1..Len(images) :
       images[k].fault # "none"
          => /\ k = Len(images)
             /\ pc = "ImageError"
             /\ Len(out) = (IF images[k].fault = "load"
                            THEN InfoIndex(k) - 1
                            ELSE HeaderIndex(k, x) - 1)
             /\ \A i \in 1..Len(out) : out[i] # <<26>>
             /\ SubSeq(out, 1, 4) = << <<27, 64>>, <<27, 105, 97, 1>>,
                                       <<27, 105, 77, 0>>, <<27, 105, 100, 0, 0>> >>
             /\ k >= 2 => out[InfoIndex(k) - 1] = <<12>>
             /\ \A j \in 1..k :
                   (j < k \/ images[k].fault = "pixel")
                      => /\ IsPrintInformation(out[InfoIndex(j)])
                         /\ out[InfoIndex(j) + 1] = compression_mode(USE_TIFF)
                         /\ Len(FrameLengths(out[TopMarginIndex(j)])) = top_margin
                         /\ \A col \in 0..((IF j < k THEN images[j].width ELSE x) - 1) :
                               LET f == row_frame(images[j], stripe_size, col,
                                                  USE_TIFF)
                               IN  /\ out[HeaderIndex(j, col)] = f.header
                                   /\ out[PayloadIndex(j, col)] = f.payload
                         /\ j < k => WellFramed(out[BottomMarginIndex(j)])

\* the read of a pixel of the second column of the second image has failed
C13_Witness ==
    /\ pc = "ImageError"
    /\ Len(images) = 2
    /\ images[2].fault = "pixel"
    /\ x = 1
    /\ Len(out) = PayloadIndex(2, 0)

(***************************************************************************)
(* C14 (SpecPrint).  What print does with the socket is, at every moment,  *)
(* a beginning of: one create_connection to (ip, 9100), one sendall of the *)
(* whole job stream (the concatenation of all the chunks of render, the    *)
(* print command last), one close; nothing else, no read, and no call      *)
(* after a call that failed.  A print that returns has made all three; a   *)
(* failed connect or write ends print with the error.                      *)
(***************************************************************************)
C14_ConnectSendClose ==
    LET expected == << [op |-> "create_connection", arg |-> <<ip, 9100>>],
                       [op |-> "sendall", arg |-> join(out)],
                       [op |-> "close", arg |-> <<>>] >>
    IN  /\ Len(sock) <= 3
        /\ \A i \in 1..Len(sock) :
              /\ sock[i].op = expected[i].op
              /\ sock[i].arg = expected[i].arg
              /\ i < Len(sock) => sock[i].ok
        /\ Len(sock) >= 1 => out[Len(out)] = <<26>>
        /\ pc = "L205" <=> (Len(sock) = 3 /\ sock[3].ok)
        /\ pc = "OSError" <=> (Len(sock) >= 1 /\ ~sock[Len(sock)].ok)

\* print has returned after sending a job of two images
C14_Witness ==
    /\ pc = "L205"
    /\ Len(images) = 2
    /\ images[2].width >= 1
    /\ Len(sock) = 3
    /\ sock[2].op = "sendall"
    /\ Len(sock[2].arg) > Len(out)

(***************************************************************************)
(* C15 (Spec).  The stripe of every image column holds image row r at dot  *)
(* stripe_size - height + r, dot d being bit 7 - d % 8 of byte d \div 8:   *)
(* when height <= stripe_size the last image row is on the last dot and    *)
(* the first stripe_size - height dots are 0; when height > stripe_size    *)
(* the first height - stripe_size image rows are left out, the stripe      *)
(* holds the last stripe_size image rows, and no error is raised.          *)
(***************************************************************************)
DotOf(stripe, d) == BitOf(stripe[d \div 8 + 1], d % 8)

IsDark(img, col, r) == Luminance3(pixel(img.pat, col, r)) <= 3 * 230

\* the stripe of the payload render has just yielded
LastStripe ==
    IF USE_TIFF THEN PackBitsDecode(out[Len(out)]).bytes ELSE out[Len(out)]

C15_BottomAligned ==
    /\ pc \notin {"IndexError", "struct.error"}
    /\ pc = "L184"
          => LET img == images[Len(images)]
                 col == x - 1
                 shift == stripe_size - img.height
             IN  /\ Len(LastStripe) = stripe_size \div 8
                 /\ \A d \in 0..(stripe_size - 1) :
                       DotOf(LastStripe, d)
                          = (IF d - shift \in 0..(img.height - 1)
                                /\ IsDark(img, col, d - shift)
                             THEN 1 ELSE 0)
                 /\ img.height <= stripe_size
                       => /\ \A d \in 0..(shift - 1) : DotOf(LastStripe, d) = 0
                          /\ DotOf(LastStripe, stripe_size - 1)
                                = (IF IsDark(img, col, img.height - 1)
                                   THEN 1 ELSE 0)
                 /\ img.height > stripe_size
                       => \A d \in 0..(stripe_size - 1) :
                             DotOf(LastStripe, d)
                                = (IF IsDark(img, col,
                                             img.height - stripe_size + d)
                                   THEN 1 ELSE 0)

\* a column of an image taller than the stripe has been yielded, its first
\* dot being the dark row height - stripe_size of the image
C15_Witness ==
    /\ pc = "L184"
    /\ images[Len(images)].height > stripe_size
    /\ stripe_size = 312
    /\ IsDark(images[Len(images)], x - 1,
              images[Len(images)].height - stripe_size)
    /\ ~IsDark(images[Len(images)], x - 1, 0)
    /\ DotOf(LastStripe, 0) = 1

(***************************************************************************)
(* Reading the chunks of _compress_tiff against the row.  A run chunk is 2 *)
(* bytes, a header of 128..255 (the signed -(k - 1), k = 257 - header) and *)
(* the byte; a literal chunk is a header of 0..127 (length - 1) and the    *)
(* bytes.  A byte of the row is in a run when a neighbour equals it.       *)
(***************************************************************************)
IsRunChunk(c) == Len(c) = 2 /\ c[1] \in 128..255

IsLiteralChunk(c) == Len(c) >= 2 /\ c[1] \in 0..127 /\ Len(c) = c[1] + 2

SpanLen(c) == IF IsRunChunk(c) THEN 257 - c[1] ELSE Len(c) - 1

\* the number of bytes of the row the chunks before chunk i stand for
RECURSIVE SpanStart(_, _)
SpanStart(chunks, i) ==
    IF i = 1 THEN 0 ELSE SpanStart(chunks, i - 1) + SpanLen(chunks[i - 1])

InRun(r, i) ==
    \/ i > 1 /\ r[i - 1] = r[i]
    \/ i < Len(r) /\ r[i + 1] = r[i]

\* every maximal run is one run chunk, every maximal stretch between runs
\* one literal chunk, in the order of the row
MaximalSegments(r, chunks) ==
    /\ \A i \in 1..Len(chunks) : IsRunChunk(chunks[i]) \/ IsLiteralChunk(chunks[i])
    /\ SpanStart(chunks, Len(chunks) + 1) = Len(r)
    /\ \A i \in 1..Len(chunks) :
          LET c == chunks[i]
              s == SpanStart(chunks, i)
              k == SpanLen(c)
          IN  IF IsRunChunk(c)
              THEN /\ k >= 2
                   /\ \A j \in (s + 1)..(s + k) : r[j] = c[2]
                   /\ s > 0 => r[s] # c[2]
                   /\ s + k < Len(r) => r[s + k + 1] # c[2]
              ELSE /\ SubSeq(r, s + 1, s + k) = SubSeq(c, 2, k + 1)
                   /\ \A j \in (s + 1)..(s + k) : ~InRun(r, j)
                   /\ \A j \in 2..k : c[j] # c[j + 1]
                   /\ i < Len(chunks) => IsRunChunk(chunks[i + 1])

(***************************************************************************)
(* C16 (SpecCompress).  As claimed: for every row, every maximal run of    *)
(* k >= 2 equal bytes becomes one run chunk (header -(k - 1), the byte)    *)
(* and every maximal stretch between runs one literal chunk (header        *)
(* length - 1, the bytes); no two literal chunks are adjacent, no literal  *)
(* chunk holds two equal adjacent bytes, and the byte after a run differs  *)
(* from the byte of the run.                                               *)
(***************************************************************************)
C16_MaximalSegments ==
    Returned => (~fn_ret.err /\ MaximalSegments(fn_args.row, fn_ret.chunks))

\* 130 equal bytes in a row, or 129 bytes in a row none of which is in a run
HasLongSpan(r) ==
    \/ \E i \in 1..(Len(r) - 129) : \A j \in i..(i + 128) : r[j] = r[j + 1]
    \/ \E i \in 1..(Len(r) - 128) : \A j \in i..(i + 128) : ~InRun(r, j)

(***************************************************************************)
(* C16 (SpecCompress), amended.  The same for every row whose maximal runs *)
(* are of at most 129 bytes and whose stretches between runs are of at     *)
(* most 128 bytes, which every row of at most 128 bytes is.                *)
(***************************************************************************)
C16_MaximalSegmentsOfShortSpans ==
    (Returned /\ ~HasLongSpan(fn_args.row))
        => (~fn_ret.err /\ MaximalSegments(fn_args.row, fn_ret.chunks))

\* a literal chunk, a run chunk and a literal chunk have been yielded
C16_Witness ==
    /\ Returned
    /\ ~fn_ret.err
    /\ Len(fn_ret.chunks) = 3
    /\ IsLiteralChunk(fn_ret.chunks[1])
    /\ IsRunChunk(fn_ret.chunks[2])
    /\ IsLiteralChunk(fn_ret.chunks[3])
    /\ fn_ret.chunks[2][2] # fn_ret.chunks[3][2]

(***************************************************************************)
(* C17 (Spec).  render never ends with an AssertionError: whatever the     *)
(* model (known, unknown, none, the 'error' sentinel), the image, the      *)
(* margins and the mode, the stripe size render resolves is a multiple of  *)
(* 8, the row rasterized for a column has stripe_count bytes, and in TIFF  *)
(* mode the compressed stripe of stripe_count zero bytes is the 2 bytes    *)
(* (1 - stripe_count as a signed byte, 0x00).                              *)
(***************************************************************************)
C17_AssertionsHold ==
    /\ pc # "AssertionError"
    /\ Len(out) >= 1 => stripe_size % 8 = 0
    /\ (pc = "L174" /\ USE_TIFF)
          => /\ ~_compress_tiff(zeros(stripe_size \div 8)).err
             /\ join(_compress_tiff(zeros(stripe_size \div 8)).chunks)
                   = <<257 - stripe_size \div 8, 0>>
    /\ pc = "L183"
          => Len(_raw_row(images[Len(images)], stripe_size \div 8, x,
                          stripe_size - images[Len(images)].height).bytes)
                = stripe_size \div 8

\* a TIFF job for the 'error' sentinel has passed the three assertions
C17_Witness ==
    /\ pc = "L183"
    /\ USE_TIFF
    /\ printer_model = "error"
    /\ stripe_size = 408
    /\ Len(out[TopMarginIndex(1)]) = 5 * top_margin
    /\ top_margin >= 1

(***************************************************************************)
(* C18 (Spec).  For every image of a finished job and all margins, the     *)
(* raster number in the image's print information command is the number    *)
(* of Row Frames in the image's block: those of the top margin, of the     *)
(* columns and of the bottom margin.                                       *)
(***************************************************************************)
C18_RasterNumberIsFrameCount ==
    Done
        => \A k \in 1..Len(images) :
              LET c == out[InfoIndex(k)]
                  rows == join(SubSeq(out, TopMarginIndex(k),
                                      BottomMarginIndex(k)))
              IN  /\ IsPrintInformation(c)
                  /\ WellFramed(rows)
                  /\ c[8] + 256 * c[9] + 65536 * c[10] + 16777216 * c[11]
                        = Len(FrameLengths(rows))

(***************************************************************************)
(* C19 (SpecDetect).  After any sequence of detect_printer_model calls the *)
(* cache maps addresses to '9800PCN' or 'P950NW' only, never to 'error' or *)
(* None; a call for an address no earlier call has returned a recognised   *)
(* model for makes a probe; and an entry of the cache is never changed or  *)
(* removed by a later call.                                                *)
(***************************************************************************)
C19_CacheHoldsOnlyModels ==
    /\ \A a \in DOMAIN PRINTER_BY_IP : PRINTER_BY_IP[a] \in {"9800PCN", "P950NW"}
    /\ Len(calls) >= 1 => PRINTER_BY_IP = calls[Len(calls)].cache
    /\ \A j \in 1..Len(calls) :
          (\A i \in 1..(j - 1) :
              calls[i].ip = calls[j].ip
                 => calls[i].res \notin {"9800PCN", "P950NW"})
             => calls[j].probed
    /\ \A i \in 1..Len(calls), j \in 1..Len(calls) :
          i < j => \A a \in DOMAIN calls[i].cache :
                      /\ a \in DOMAIN calls[j].cache
                      /\ calls[j].cache[a] = calls[i].cache[a]

\* a probe that failed, a probe that met an unknown printer and a probe
\* that found a model, all for one address: only the last is stored
C19_Witness ==
    /\ Len(calls) = 3
    /\ \A i \in 1..3 : calls[i].ip = Addr /\ calls[i].probed
    /\ calls[1].res = "error"
    /\ calls[1].cache = [a \in {} |-> None]
    /\ calls[2].res = None /\ calls[2].exc = None
    /\ calls[2].cache = [a \in {} |-> None]
    /\ calls[3].res = "9800PCN"
    /\ DOMAIN PRINTER_BY_IP = {Addr}
    /\ PRINTER_BY_IP[Addr] = "9800PCN"

(***************************************************************************)
(* C20 (SpecPrint).  print touches the socket only after detection and the *)
(* encoding of the whole job have ended without an exception: when the     *)
(* first socket call is made render has yielded its last chunk, the print  *)
(* command, and no image access has failed; and a print that detection or  *)
(* encoding has ended with an exception has opened no connection and sent  *)
(* nothing.                                                                *)
(***************************************************************************)
C20_EncodeBeforeConnect ==
    /\ Len(sock) >= 1
          => /\ pc \in {"L203", "L204", "L205", "OSError"}
             /\ Len(out) >= 5
             /\ out[Len(out)] = <<26>>
             /\ \A k \in 1..Len(images) : images[k].fault = "none"
    /\ pc \in {"ImageError", "HTTPException", "AssertionError",
               "struct.error", "IndexError"}
          => sock = <<>>
    /\ (\E k \in 1..Len(images) : images[k].fault # "none") => sock = <<>>

\* a pixel read of the second image has failed after the first image was
\* encoded: nothing has been done with the socket
C20_Witness ==
    /\ pc = "ImageError"
    /\ Len(images) = 2
    /\ images[1].width >= 1
    /\ images[2].fault = "pixel"
    /\ Len(out) > BottomMarginIndex(1)
    /\ sock = <<>>

====
